---- MODULE Spec2Model ----
(***************************************************************************)
(* Model of plugins.v2/mediaservermsgtest/__init__.py: the webhook         *)
(* notification relay MediaServerMsgTest.  One action per entry point      *)
(* (init_plugin, send), plus the environment (the clock behind time.time() *)
(* and the connectivity of the media servers behind is_inactive()).        *)
(*                                                                         *)
(* Strings that the code takes apart (a "|"-delimited type group, a file   *)
(* path, the f-string dedup key) are sequences of tokens; a token is a run *)
(* of characters the code never looks inside.                              *)
(***************************************************************************)
EXTENDS Integers, Sequences, FiniteSets, TLC

VARIABLES
    enabled,            \* self._enabled
    types,              \* self._types: the selected "|"-delimited kind groups
    mediaservers,       \* self._mediaservers: the selected server names
    add_play_link,      \* self._add_play_link
    webhook_msg_keys,   \* self._webhook_msg_keys: dedup key -> expiry timestamp
    now,                \* the value time.time() returns
    active,             \* servers whose instance.is_inactive() is false
    history,            \* what earlier handlings did for the watched key (observation only)
    last,               \* what the handling that has just ended did (observation only)
    threads,            \* the calls of send in flight when the host dispatches concurrently
    lookup              \* a call of _get_variable_one_from_path: its path and its result

vars == <<enabled, types, mediaservers, add_play_link, webhook_msg_keys,
          now, active, history, last, threads, lookup>>

-----------------------------------------------------------------------------
(* Bounds of the model *)

\* the clock stops advancing at MaxTime
MaxTime == 600
\* the short clock step; the long one is DURATION
Step == 300
\* the calls of send that can be in flight at once
NThreads == 2

None == "<None>"

-----------------------------------------------------------------------------
(* Static tables *)

\* _webhook_actions: event kind -> label (labels transliterated)
webhook_actions ==
    [k \in {"library.new", "system.webhooktest", "playback.start", "playback.stop",
            "user.authenticated", "user.authenticationfailed", "media.play",
            "media.stop", "PlaybackStart", "PlaybackStop", "item.rate"} |->
        CASE k = "library.new" -> "new"
          [] k = "system.webhooktest" -> "test"
          [] k \in {"playback.start", "media.play", "PlaybackStart"} -> "start"
          [] k \in {"playback.stop", "media.stop", "PlaybackStop"} -> "stop"
          [] k = "user.authenticated" -> "login"
          [] k = "user.authenticationfailed" -> "loginfailed"
          [] OTHER -> "rate"]

\* dict.get(k): the label, or None for a kind the table does not hold
ActionLabel(k) == IF k \in DOMAIN webhook_actions THEN webhook_actions[k] ELSE None

\* the default duration of __add_element
DURATION == 600

-----------------------------------------------------------------------------
(* Token strings *)

\* "/a/b" as tokens: a "/" before every name
RECURSIVE Slash(_)
Slash(names) ==
    IF names = <<>> THEN <<>>
    ELSE <<"/", Head(names)>> \o Slash(Tail(names))

\* Python's `pat in s` on strings: pat occurs as a contiguous run of s
Contains(pat, s) ==
    \E i \in 1..(Len(s) - Len(pat) + 1) : SubSeq(s, i, i + Len(pat) - 1) = pat

\* str.split("|"): the pieces between the separators, in order
RECURSIVE SplitFrom(_, _, _)
SplitFrom(s, i, cur) ==
    IF i > Len(s) THEN <<cur>>
    ELSE IF s[i] = "|" THEN <<cur>> \o SplitFrom(s, i + 1, <<>>)
    ELSE SplitFrom(s, i + 1, Append(cur, s[i]))

Split(s) == SplitFrom(s, 1, <<>>)

\* str.endswith(suffix) for a one-token suffix
EndsWith(s, suffix) == Len(s) > 0 /\ s[Len(s)] = suffix

\* os.path.dirname: everything before the last "/", trailing slashes stripped
\* unless the head is slashes only
RECURSIVE RStripSlash(_)
RStripSlash(s) ==
    IF Len(s) > 0 /\ s[Len(s)] = "/" THEN RStripSlash(SubSeq(s, 1, Len(s) - 1)) ELSE s

Dirname(p) ==
    LET slashes == {i \in 1..Len(p) : p[i] = "/"}
        i == IF slashes = {} THEN 0 ELSE CHOOSE j \in slashes : \A k \in slashes : k <= j
        head == SubSeq(p, 1, i)
    IN  IF head # <<>> /\ (\E k \in 1..Len(head) : head[k] # "/")
        THEN RStripSlash(head) ELSE head

-----------------------------------------------------------------------------
(* The path -> category table and the rescan step *)

\* _path_mapping, in declaration order: <<patterns, category id>>
path_mapping == <<
    << <<Slash(<<"media", "Movie", "Episode", "Donghua">>), Slash(<<"media", "Show", "Episode", "Donghua">>)>>, 0 >>,
    << <<Slash(<<"media", "Movie", "Episode", "Anime">>), Slash(<<"media", "Show", "Episode", "Anime">>)>>, 1 >>,
    << <<Slash(<<"media", "Movie", "Episode", "Animation">>), Slash(<<"media", "Show", "Episode", "Animation">>)>>, 2 >>,
    << <<Slash(<<"media", "Movie", "Documentary">>), Slash(<<"media", "Show", "Documentary">>)>>, 3 >>,
    << <<Slash(<<"media", "Movie", "Series", "SeriesRU">>), Slash(<<"media", "Show", "Series", "SeriesRU">>)>>, 4 >>,
    << <<Slash(<<"media", "Movie", "Series", "SeriesCN">>), Slash(<<"media", "Show", "Series", "SeriesCN">>)>>, 5 >>,
    << <<Slash(<<"media", "Movie", "Series", "SeriesKO">>), Slash(<<"media", "Show", "Series", "SeriesKO">>)>>, 6 >>,
    << <<Slash(<<"media", "Movie", "Series", "SeriesJP">>), Slash(<<"media", "Show", "Series", "SeriesJP">>)>>, 7 >>,
    << <<Slash(<<"media", "Movie", "Series", "SeriesIN">>), Slash(<<"media", "Show", "Series", "SeriesUS">>)>>, 8 >>,
    << <<Slash(<<"media", "Movie", "Series", "SeriesUS">>), Slash(<<"media", "Show", "Zongyi", "ZongyiCN">>)>>, 9 >>,
    << <<Slash(<<"media", "Movie", "Series", "NSFW">>), Slash(<<"media", "Show", "Zongyi", "ZongyiKO">>)>>, 10 >>,
    << <<Slash(<<"media", "Show", "Zongyi", "ZongyiUS">>)>>, 11 >>,
    << <<Slash(<<"media", "Show", "Episode", "NSFW">>)>>, 12 >>
>>

\* whether entry i of the table has a pattern contained in the path
EntryMatches(i, media_path) ==
    \E j \in 1..Len(path_mapping[i][1]) : Contains(path_mapping[i][1][j], media_path)

\* GetVariableOneFromPath returning the last matching entry instead of the first
GetVariableOneFromPathLast(media_path) ==
    IF media_path = <<>> THEN <<>>
    ELSE LET hits == {i \in 1..Len(path_mapping) : EntryMatches(i, media_path)}
         IN  IF hits = {} THEN <<>>
             ELSE <<path_mapping[CHOOSE i \in hits : \A k \in hits : i >= k][2]>>

\* _get_variable_one_from_path: the category id of the first matching entry.
\* An Optional[int] is a sequence: <<>> for None, <<v>> for the value v.
GetVariableOneFromPath(media_path) ==
    IF media_path = <<>> THEN <<>>
    ELSE LET hits == {i \in 1..Len(path_mapping) : EntryMatches(i, media_path)}
         IN  IF hits = {} THEN <<>>
             ELSE <<path_mapping[CHOOSE i \in hits : \A k \in hits : i <= k][2]>>

\* RescanSegment with SHOW sent to the movies endpoint
RescanSegmentShowAsMovie(item_type) ==
    IF item_type \in {"MOV", "SHOW"} THEN "movies"
    ELSE IF item_type = "TV" THEN "tvshows"
    ELSE None

\* variable_three of _execute_curl_command: the endpoint segment of an item type
RescanSegment(item_type) ==
    IF item_type = "MOV" THEN "movies"
    ELSE IF item_type \in {"TV", "SHOW"} THEN "tvshows"
    ELSE None

\* how subprocess.run(curl, timeout=30) can end: exit status 0, another exit
\* status, TimeoutExpired, FileNotFoundError, any other exception
CurlOutcomes == {"ok", "nonzero", "timeout", "nocurl", "error"}

\* CurlCaught without the final `except Exception` clause
CurlCaughtNoCatchAll == {"timeout", "nocurl"}

\* the outcomes the except clauses of _execute_curl_command catch and log
CurlCaught == {"timeout", "nocurl", "error"}

NoRescan == [called |-> FALSE, segment |-> None, variable_one |-> <<>>,
             variable_two |-> <<>>, result |-> "skipped", raised |-> FALSE]

\* _execute_curl_command: the call it issues (if any), how the call ended, and
\* whether an exception leaves the step
ExecuteCurlCommand(e, rc) ==
    IF e.item_path = <<>> THEN NoRescan
    ELSE IF GetVariableOneFromPath(e.item_path) = <<>> THEN NoRescan
    ELSE IF RescanSegment(e.item_type) = None THEN NoRescan
    ELSE [called |-> TRUE,
          segment |-> RescanSegment(e.item_type),
          variable_one |-> GetVariableOneFromPath(e.item_path),
          variable_two |-> IF EndsWith(e.item_path, ".strm")
                           THEN Dirname(e.item_path) ELSE <<>>,
          result |-> rc,
          raised |-> rc \notin {"ok", "nonzero"} \cup CurlCaught]

-----------------------------------------------------------------------------
(* The server directory (MediaServerHelper) and service_infos *)

\* the media servers the host knows, and the type of each
Servers == {"emby1", "plex1"}

ServerType == [s \in Servers |-> IF s = "emby1" THEN "emby" ELSE "plex"]

\* MediaServerHelper().get_services(type_filter, name_filters); a type_filter
\* of None keeps every type, and a call without name_filters passes Servers
GetServices(type_filter, name_filters) ==
    {s \in Servers : /\ (type_filter = None \/ ServerType[s] = type_filter)
                     /\ s \in name_filters}

\* ServiceInfos without the is_inactive() test
ServiceInfosIgnoringConnection(type_filter) ==
    IF mediaservers = {} THEN {}
    ELSE GetServices(type_filter, mediaservers)

\* service_infos: the configured servers (of a type) that are connected;
\* the empty set stands for the None the code returns
ServiceInfos(type_filter) ==
    IF mediaservers = {} THEN {}
    ELSE {s \in GetServices(type_filter, mediaservers) : s \in active}

\* service_info(name): found among the connected configured servers, or not
ServiceInfo(name) == name \in ServiceInfos(None)

-----------------------------------------------------------------------------
(* The event filter of send *)

\* msgflag: the kind is a piece of one of the selected "|"-delimited groups
TypeSelected(e) ==
    \E t \in types : \E i \in 1..Len(Split(t)) : Split(t)[i] = <<e.event>>

\* Filter with the server checks made before the kind is looked up
FilterServersFirst(e, fault) ==
    IF ~enabled THEN [ended |-> "disabled", calls |-> {}]
    ELSE IF ~e.has_data THEN [ended |-> "nodata", calls |-> {}]
    ELSE IF mediaservers = {} THEN [ended |-> "noserver", calls |-> {}]
    ELSE IF fault = "directory" THEN [ended |-> "raised", calls |-> {"directory"}]
    ELSE IF ServiceInfos(None) = {} THEN [ended |-> "noserver", calls |-> {"directory"}]
    ELSE IF e.server_name # None /\ ~ServiceInfo(e.server_name)
         THEN [ended |-> "server", calls |-> {"directory"}]
    ELSE IF e.channel # None /\ ServiceInfos(e.channel) = {}
         THEN [ended |-> "channel", calls |-> {"directory"}]
    ELSE IF ActionLabel(e.event) = None
         THEN [ended |-> "unrecognized", calls |-> {"directory"}]
    ELSE IF ~TypeSelected(e) THEN [ended |-> "unselected", calls |-> {"directory"}]
    ELSE [ended |-> "pass", calls |-> {"directory"}]

\* Lines 493-530 of send for event e when the collaborator `fault` raises on
\* use: where they end (the reason of the early return, "raised", or "pass")
\* and the collaborators called on the way
Filter(e, fault) ==
    IF ~enabled THEN [ended |-> "disabled", calls |-> {}]
    ELSE IF ~e.has_data THEN [ended |-> "nodata", calls |-> {}]
    ELSE IF ActionLabel(e.event) = None THEN [ended |-> "unrecognized", calls |-> {}]
    ELSE IF ~TypeSelected(e) THEN [ended |-> "unselected", calls |-> {}]
    ELSE IF mediaservers = {} THEN [ended |-> "noserver", calls |-> {}]
    ELSE IF fault = "directory" THEN [ended |-> "raised", calls |-> {"directory"}]
    ELSE IF ServiceInfos(None) = {} THEN [ended |-> "noserver", calls |-> {"directory"}]
    ELSE IF e.server_name # None /\ ~ServiceInfo(e.server_name)
         THEN [ended |-> "server", calls |-> {"directory"}]
    ELSE IF e.channel # None /\ ServiceInfos(e.channel) = {}
         THEN [ended |-> "channel", calls |-> {"directory"}]
    ELSE [ended |-> "pass", calls |-> {"directory"}]

-----------------------------------------------------------------------------
(* The deduplication set *)

\* the f-string key of send: item id, client and user name joined by "-"
ExpiringKey(e) == e.item_id \o <<"-">> \o e.client \o <<"-">> \o e.user_name

\* AddElement that also drops the entries whose expiry has elapsed
AddElementPurging(keys, key, t) ==
    [k \in {x \in DOMAIN keys : keys[x] > t} \cup {key} |->
        IF k = key THEN t + DURATION ELSE keys[k]]

\* __add_element: insert the key or overwrite its expiry with t + duration
AddElement(keys, key, t) ==
    [k \in DOMAIN keys \cup {key} |-> IF k = key THEN t + DURATION ELSE keys[k]]

\* RemoveElement with the comparison inverted: only the key is kept
RemoveElementInverted(keys, key) == [k \in DOMAIN keys \cap {key} |-> keys[k]]

\* __remove_element: the dict rebuilt without the key
RemoveElement(keys, key) == [k \in DOMAIN keys \ {key} |-> keys[k]]

\* __get_elements: the dict rebuilt without the entries whose expiry has
\* elapsed. Nothing in the class calls it.
GetElements(keys, t) == [k \in {x \in DOMAIN keys : keys[x] > t} |-> keys[k]]

\* IsDuplicateStop testing for another spelling of the stop kind
IsDuplicateStopWrongKind(e, keys) ==
    e.event = "PlaybackStop" /\ ExpiringKey(e) \in DOMAIN keys

\* the duplicate test of send: a playback.stop whose key is in the dict
IsDuplicateStop(e, keys) ==
    e.event = "playback.stop" /\ ExpiringKey(e) \in DOMAIN keys

-----------------------------------------------------------------------------
(* send, after the filter *)

\* the external collaborators send can call
Collaborators == {"directory", "rescan", "location", "image", "playurl", "notify"}

\* what can be made to raise when send uses it ("none": nothing fails)
Faults == {"none", "directory", "location", "image", "playurl", "notify"}

\* float(event_info.percentage) succeeds on these strings and raises on others
NumericStrings == {"42.5"}

\* lines 603-620: the lookups made for the play link, in order
PlayLinkSteps(e) ==
    IF ~add_play_link THEN <<>>
    ELSE IF e.server_name # None
         THEN <<"directory">> \o
              (IF e.server_name \in ServiceInfos(None) THEN <<"playurl">> ELSE <<>>)
    ELSE IF e.channel # None
         THEN <<"directory">> \o
              (IF GetServices(e.channel, Servers) # {} THEN <<"playurl">> ELSE <<>>)
    ELSE <<>>

\* lines 546-638 as the steps that can raise, in program order: the lookups of
\* the message, then the update of the dedup set, then post_message
NotifySteps(e) ==
    (IF e.ip # None THEN <<"location">> ELSE <<>>)
    \o (IF e.percentage # None THEN <<"float">> ELSE <<>>)
    \o (IF e.tmdb_id # None THEN <<"image">> ELSE <<>>)
    \o PlayLinkSteps(e)
    \o <<"dedup", "notify">>

\* whether a step raises: the faulty collaborator, or float() of a bad string
StepRaises(step, e, fault) ==
    \/ step = fault
    \/ step = "float" /\ e.percentage \notin NumericStrings

\* the steps that run: all of them, or those up to and including the first
\* one that raises
StepsRun(e, fault) ==
    LET steps == NotifySteps(e)
        bad == {i \in 1..Len(steps) : StepRaises(steps[i], e, fault)}
    IN  IF bad = {} THEN steps
        ELSE SubSeq(steps, 1, CHOOSE i \in bad : \A k \in bad : i <= k)

StepsRaise(e, fault) ==
    \E i \in 1..Len(NotifySteps(e)) : StepRaises(NotifySteps(e)[i], e, fault)

Ran(step, e, fault) ==
    \E i \in 1..Len(StepsRun(e, fault)) : StepsRun(e, fault)[i] = step

\* lines 622-629: the dedup set after the update step of an accepted event
DedupUpdate(e, keys, t) ==
    IF e.event = "playback.stop" THEN AddElement(keys, ExpiringKey(e), t)
    ELSE IF e.event = "playback.start" THEN RemoveElement(keys, ExpiringKey(e))
    ELSE keys

\* whether send runs the rescan step for an accepted, non-duplicate event
IsRescanEvent(e) == e.event = "library.new"

\* send(event) as a whole, with the collaborator `fault` raising on use and the
\* curl call (if issued) ending as rc:
\*   keys      the dedup set afterwards
\*   outcome   "returned", or "raised" when an exception leaves send
\*   ended     where it ended: a filter reason, "duplicate", "delivered" or the
\*             step that raised
\*   accepted  the event passed the filter
\*   composed  control reached the composition of the message (line 546)
\*   notified  post_message returned: the notification was delivered
\*   calls     the collaborators called
\*   rescan    the rescan call
SendResult(e, fault, rc) ==
    LET f == Filter(e, fault)
        base == [keys |-> webhook_msg_keys, outcome |-> "returned", ended |-> f.ended,
                 accepted |-> FALSE, composed |-> FALSE, notified |-> FALSE,
                 calls |-> f.calls, rescan |-> NoRescan]
    IN  IF f.ended = "raised"
        THEN [base EXCEPT !.outcome = "raised", !.ended = "directory"]
        ELSE IF f.ended # "pass" THEN base
        ELSE IF IsDuplicateStop(e, webhook_msg_keys)
        THEN [base EXCEPT !.accepted = TRUE, !.ended = "duplicate",
                          !.keys = AddElement(webhook_msg_keys, ExpiringKey(e), now)]
        ELSE LET rs == IF IsRescanEvent(e) THEN ExecuteCurlCommand(e, rc) ELSE NoRescan
                 run == StepsRun(e, fault)
                 raised == StepsRaise(e, fault)
             IN  IF rs.raised
                 THEN [base EXCEPT !.accepted = TRUE, !.outcome = "raised",
                                   !.ended = "rescan", !.rescan = rs,
                                   !.calls = base.calls \cup {"rescan"}]
                 ELSE
                 [keys |-> IF Ran("dedup", e, fault)
                           THEN DedupUpdate(e, webhook_msg_keys, now)
                           ELSE webhook_msg_keys,
                  outcome |-> IF raised THEN "raised" ELSE "returned",
                  ended |-> IF raised THEN run[Len(run)] ELSE "delivered",
                  accepted |-> TRUE,
                  composed |-> TRUE,
                  notified |-> ~raised,
                  calls |-> base.calls
                            \cup (IF rs.called THEN {"rescan"} ELSE {})
                            \cup {c \in Collaborators : Ran(c, e, fault)},
                  rescan |-> rs]

-----------------------------------------------------------------------------
(* The inputs: configurations and webhook events *)

TypeLibrary == <<"library.new">>
TypeStart == <<"playback.start", "|", "media.play", "|", "PlaybackStart">>
TypeStop == <<"playback.stop", "|", "media.stop", "|", "PlaybackStop">>

\* the configurations init_plugin is called with
Configs ==
    { [enabled |-> TRUE, types |-> {TypeLibrary, TypeStart, TypeStop},
       mediaservers |-> {"emby1", "plex1"}, add_play_link |-> TRUE],
      [enabled |-> TRUE, types |-> {TypeLibrary, TypeStop},
       mediaservers |-> {"emby1", "plex1"}, add_play_link |-> FALSE],
      [enabled |-> TRUE, types |-> {TypeLibrary, TypeStart, TypeStop},
       mediaservers |-> {"emby1"}, add_play_link |-> FALSE],
      [enabled |-> TRUE, types |-> {TypeLibrary, TypeStart, TypeStop},
       mediaservers |-> {}, add_play_link |-> FALSE],
      [enabled |-> FALSE, types |-> {TypeLibrary, TypeStart, TypeStop},
       mediaservers |-> {"emby1", "plex1"}, add_play_link |-> FALSE] }

PathDonghua == Slash(<<"media", "Movie", "Episode", "Donghua", "foo">>) \o <<".mkv">>
PathZongyi == Slash(<<"media", "Show", "Zongyi", "ZongyiUS", "bar">>) \o <<".strm">>
PathOther == Slash(<<"data", "misc", "clip">>) \o <<".mkv">>

\* a webhook event with the fields send reads
Ev(kind, item, server, chan, itype, path, ip, pct, tmdb) ==
    [has_data |-> TRUE, event |-> kind, item_id |-> item, client |-> <<"web">>,
     user_name |-> <<"ann">>, server_name |-> server, channel |-> chan,
     item_type |-> itype, item_path |-> path, ip |-> ip, percentage |-> pct,
     tmdb_id |-> tmdb]

\* an Event whose event_data is None
NoEventData ==
    [has_data |-> FALSE, event |-> None, item_id |-> <<>>, client |-> <<>>,
     user_name |-> <<>>, server_name |-> None, channel |-> None,
     item_type |-> None, item_path |-> <<>>, ip |-> None, percentage |-> None,
     tmdb_id |-> None]

\* the optional fields (ip, percentage, tmdb id) all absent
Plain(kind, item, server, chan) ==
    Ev(kind, item, server, chan, "TV", <<>>, None, None, None)

\* playback events of item i1 on a named server, of every start and stop kind
PlaybackEvents ==
    {Plain(k, <<"i1">>, "emby1", None) :
        k \in {"playback.start", "playback.stop", "media.play", "media.stop"}}

\* playback events of a second item
OtherItemEvents ==
    {Plain(k, <<"i2">>, "emby1", None) : k \in {"playback.start", "playback.stop"}}

\* events that differ in the server or channel they name
ServerEvents ==
    {Plain("playback.start", <<"i1">>, sc[1], sc[2]) :
        sc \in {<<None, None>>, <<"plex1", None>>, <<None, "emby">>,
                <<None, "plex">>, <<"emby1", "plex">>}}

\* events with the optional fields that make send call its collaborators
RichStop ==
    Ev("playback.stop", <<"i1">>, "emby1", "emby", "TV", <<>>, "10.0.0.7", "42.5", "tt1")

BadPercentageStop ==
    Ev("playback.stop", <<"i1">>, "emby1", None, "TV", <<>>, None, "abc", None)

RichStart ==
    Ev("playback.start", <<"i1">>, None, "emby", "MOV", <<>>, "10.0.0.7", None, "tt1")

\* an event of a kind that _webhook_actions does not hold
BogusEvent ==
    Ev("bogus.kind", <<"i1">>, "emby1", "emby", "MOV", PathDonghua, "10.0.0.7", "42.5", "tt1")

\* library.new events over the item types and paths of the rescan step
Library(itype, path) ==
    Ev("library.new", <<"i1">>, "emby1", None, itype, path, None, None, None)

LibraryEvents ==
    {Library(tp[1], tp[2]) :
        tp \in {<<"MOV", PathDonghua>>, <<"TV", PathZongyi>>, <<"SHOW", PathZongyi>>,
                <<"AUD", PathDonghua>>, <<"MOV", <<>> >>, <<"MOV", PathOther>>,
                <<None, PathDonghua>>}}

Events ==
    PlaybackEvents \cup OtherItemEvents \cup ServerEvents \cup LibraryEvents
    \cup {RichStop, BadPercentageStop, RichStart, BogusEvent, NoEventData}

\* what send is called with: <<event, collaborator that raises, curl outcome>>
Inputs ==
    (PlaybackEvents \X {"none", "notify"} \X {"ok"})
    \cup ((OtherItemEvents \cup ServerEvents \cup {BadPercentageStop}) \X {"none"} \X {"ok"})
    \cup ({RichStop} \X Faults \X {"ok"})
    \cup ({RichStart} \X {"none", "location", "playurl"} \X {"ok"})
    \cup ({BogusEvent, NoEventData} \X {"none", "directory", "notify"} \X {"ok"})
    \cup (LibraryEvents \X {"none"} \X {"ok", "timeout"})
    \cup ({Library("MOV", PathDonghua)} \X {"none", "notify"} \X CurlOutcomes)

-----------------------------------------------------------------------------
(* State machine *)

\* no handling has just ended
Idle == [valid |-> FALSE]

\* nothing has happened yet for a key
NoHistory == [stop_at |-> <<>>, armed |-> FALSE, delivered |-> FALSE]

\* the dedup key whose history is recorded
WatchedKey == <<"i1", "-", "web", "-", "ann">>

\* the calls of send the host can have in flight
Threads == 1..NThreads

\* no call of send in flight
IdleThread == [pc |-> "idle"]

\* no call of _get_variable_one_from_path made
NoLookup == [path |-> <<>>, called |-> FALSE, result |-> <<>>]

Init ==
    /\ enabled = FALSE
    /\ types = {}
    /\ mediaservers = {}
    /\ add_play_link = FALSE
    /\ webhook_msg_keys = <<>>
    /\ now = 0
    /\ active = Servers
    /\ history = NoHistory
    /\ last = Idle
    /\ threads = [t \in Threads |-> IdleThread]
    /\ lookup = NoLookup

\* init_plugin(config) with a non-empty config
InitPlugin(config) ==
    /\ ~last.valid
    /\ enabled' = config.enabled
    /\ types' = config.types
    /\ mediaservers' = config.mediaservers
    /\ add_play_link' = config.add_play_link
    /\ UNCHANGED <<webhook_msg_keys, now, active, history, last, threads, lookup>>

\* a media server connects or disconnects
SetActive(a) ==
    /\ ~last.valid
    /\ a # active
    /\ active' = a
    /\ UNCHANGED <<enabled, types, mediaservers, add_play_link, webhook_msg_keys,
                   now, history, last, threads, lookup>>

\* time passes
Tick(d) ==
    /\ ~last.valid
    /\ now + d <= MaxTime
    /\ now' = now + d
    /\ UNCHANGED <<enabled, types, mediaservers, add_play_link, webhook_msg_keys,
                   active, history, last, threads, lookup>>

\* history of the watched key after event e was handled with result r at t:
\*   stop_at    <<t>>: the last accepted playback.stop event of the key was
\*              handled at t, and no accepted playback.start event of the key
\*              since; <<>> otherwise
\*   armed      a playback.stop notification of the key was delivered and no
\*              accepted playback.start event of the key was handled since
\*   delivered  a playback.stop notification of the key was ever delivered
HistoryAfter(h, e, r, t) ==
    IF ~r.accepted \/ ExpiringKey(e) # WatchedKey THEN h
    ELSE IF e.event = "playback.stop"
         THEN [stop_at |-> <<t>>, armed |-> h.armed \/ r.notified,
               delivered |-> h.delivered \/ r.notified]
    ELSE IF e.event = "playback.start"
         THEN [h EXCEPT !.armed = FALSE, !.stop_at = <<>>]
    ELSE h

\* the host dispatches a WebhookMessage event to send
Send(e, fault, rc) ==
    LET r == SendResult(e, fault, rc)
    IN  /\ ~last.valid
        /\ webhook_msg_keys' = r.keys
        /\ history' = HistoryAfter(history, e, r, now)
        /\ last' = [valid |-> TRUE, event |-> e, at |-> now,
                    pre |-> webhook_msg_keys,
                    prehist |-> history,
                    keys |-> r.keys, outcome |-> r.outcome, ended |-> r.ended,
                    accepted |-> r.accepted, composed |-> r.composed,
                    notified |-> r.notified, calls |-> r.calls, rescan |-> r.rescan]
        /\ UNCHANGED <<enabled, types, mediaservers, add_play_link, now, active,
                       threads, lookup>>

\* the dispatcher takes the next event: the record of the handling is dropped
Dispatched ==
    /\ last.valid
    /\ last' = Idle
    /\ UNCHANGED <<enabled, types, mediaservers, add_play_link, webhook_msg_keys,
                   now, active, history, threads, lookup>>

Next ==
    \/ \E config \in Configs : InitPlugin(config)
    \/ \E a \in {Servers, {"plex1"}, {}} : SetActive(a)
    \/ \E d \in {Step, DURATION} : Tick(d)
    \/ \E in \in Inputs : Send(in[1], in[2], in[3])
    \/ Dispatched

Spec == Init /\ [][Next]_vars

-----------------------------------------------------------------------------
(* Concurrent dispatch: send runs in several threads of the host at once.    *)
(* The code takes no lock, so a call of send is a sequence of steps on the   *)
(* shared dict: the duplicate test (line 536), the refresh of a duplicate    *)
(* (line 538), the update after the message is composed (lines 624-629),     *)
(* where __remove_element first reads the dict into a new one and then       *)
(* assigns it, and post_message (line 634).                                  *)

\* the events dispatched concurrently: starts and stops of both items
ConcurrentEvents ==
    {Plain(k, i, "emby1", None) :
        k \in {"playback.start", "playback.stop"}, i \in {<<"i1">>, <<"i2">>}}

\* the dedup sets the concurrent calls start from: empty, or holding both keys
InitialKeys ==
    { <<>>,
      [k \in {ExpiringKey(e) : e \in ConcurrentEvents} |-> DURATION] }

\* the plugin is configured and enabled, every server is connected, and the
\* events are still to be dispatched
ConcurrentInit ==
    /\ enabled = TRUE
    /\ types = {TypeLibrary, TypeStart, TypeStop}
    /\ mediaservers = Servers
    /\ add_play_link = FALSE
    /\ webhook_msg_keys \in InitialKeys
    /\ now = 0
    /\ active = Servers
    /\ history = NoHistory
    /\ last = Idle
    /\ threads = [t \in Threads |-> IdleThread]
    /\ lookup = NoLookup

ThreadFrame ==
    UNCHANGED <<enabled, types, mediaservers, add_play_link, now, active,
                history, last, lookup>>

\* lines 493-533: a thread takes an event that passes the filter;
\*   absent   its key was not in the dict when the call began
BeginSend(t, e) ==
    /\ threads[t].pc = "idle"
    /\ Filter(e, "none").ended = "pass"
    /\ threads' = [threads EXCEPT ![t] =
            [pc |-> "check", event |-> e, notified |-> FALSE,
             absent |-> ExpiringKey(e) \notin DOMAIN webhook_msg_keys,
             snapshot |-> <<>>]]
    /\ UNCHANGED webhook_msg_keys
    /\ ThreadFrame

\* line 536: the duplicate test
CheckDuplicate(t) ==
    /\ threads[t].pc = "check"
    /\ threads' = [threads EXCEPT ![t].pc =
            IF IsDuplicateStop(threads[t].event, webhook_msg_keys)
            THEN "refresh" ELSE "update"]
    /\ UNCHANGED webhook_msg_keys
    /\ ThreadFrame

\* lines 538-539: a duplicate stop refreshes its key and returns
RefreshDuplicate(t) ==
    /\ threads[t].pc = "refresh"
    /\ webhook_msg_keys' =
            AddElement(webhook_msg_keys, ExpiringKey(threads[t].event), now)
    /\ threads' = [threads EXCEPT ![t].pc = "done"]
    /\ ThreadFrame

\* lines 624-629 after the message is composed: a stop stores its key; a start
\* reads the dict to rebuild it (the comprehension of __remove_element)
UpdateKeys(t) ==
    /\ threads[t].pc = "update"
    /\ IF threads[t].event.event = "playback.stop"
       THEN /\ webhook_msg_keys' =
                    AddElement(webhook_msg_keys, ExpiringKey(threads[t].event), now)
            /\ threads' = [threads EXCEPT ![t].pc = "notify"]
       ELSE IF threads[t].event.event = "playback.start"
       THEN /\ threads' = [threads EXCEPT ![t].pc = "assign",
                                         ![t].snapshot = webhook_msg_keys]
            /\ UNCHANGED webhook_msg_keys
       ELSE /\ threads' = [threads EXCEPT ![t].pc = "notify"]
            /\ UNCHANGED webhook_msg_keys
    /\ ThreadFrame

\* line 661: __remove_element assigns the dict it rebuilt
AssignRebuilt(t) ==
    /\ threads[t].pc = "assign"
    /\ webhook_msg_keys' =
            RemoveElement(threads[t].snapshot, ExpiringKey(threads[t].event))
    /\ threads' = [threads EXCEPT ![t].pc = "notify"]
    /\ ThreadFrame

\* lines 634-638: post_message delivers the notification and send returns
PostMessage(t) ==
    /\ threads[t].pc = "notify"
    /\ threads' = [threads EXCEPT ![t].pc = "done", ![t].notified = TRUE]
    /\ UNCHANGED webhook_msg_keys
    /\ ThreadFrame

ConcurrentNext ==
    \/ \E t \in Threads, e \in ConcurrentEvents : BeginSend(t, e)
    \/ \E t \in Threads : CheckDuplicate(t)
    \/ \E t \in Threads : RefreshDuplicate(t)
    \/ \E t \in Threads : UpdateKeys(t)
    \/ \E t \in Threads : AssignRebuilt(t)
    \/ \E t \in Threads : PostMessage(t)

ConcurrentSpec == ConcurrentInit /\ [][ConcurrentNext]_vars

-----------------------------------------------------------------------------
(* _get_variable_one_from_path on its own: the paths it is called with *)

\* every pattern of the table, with the index of its entry
Patterns ==
    UNION {{<<i, path_mapping[i][1][j]>> : j \in 1..Len(path_mapping[i][1])} :
              i \in 1..Len(path_mapping)}

\* text before a pattern: nothing, a mount point, characters glued to the "/"
Prefixes == {<<>>, Slash(<<"mnt">>), <<"x">>}

\* text after a pattern: nothing, a file, characters glued to the last name
Suffixes == {<<>>, Slash(<<"foo">>) \o <<".mkv">>, <<"A">> \o Slash(<<"foo">>) \o <<".mkv">>}

\* paths holding one pattern of the table
OnePatternPaths == {pre \o pt[2] \o suf : pre \in Prefixes, pt \in Patterns, suf \in Suffixes}

\* paths holding the patterns of two different entries, in either order
TwoPatternPaths ==
    UNION {{a[2] \o b[2] \o Slash(<<"foo">>) : b \in {q \in Patterns : q[1] # a[1]}} :
              a \in Patterns}

\* paths holding no pattern: the empty path, an unrelated path, a pattern cut
\* short of its last name
NoPatternPaths ==
    {<<>>, PathOther} \cup {SubSeq(pt[2], 1, Len(pt[2]) - 1) \o <<"foo">> : pt \in Patterns}

LookupPaths == OnePatternPaths \cup TwoPatternPaths \cup NoPatternPaths \cup {PathDonghua, PathZongyi}

\* one call of _get_variable_one_from_path
Lookup(media_path) ==
    /\ ~lookup.called
    /\ lookup' = [path |-> media_path, called |-> TRUE,
                  result |-> GetVariableOneFromPath(media_path)]
    /\ UNCHANGED <<enabled, types, mediaservers, add_play_link, webhook_msg_keys,
                   now, active, history, last, threads>>

\* the caller has consumed the result
LookupDone ==
    /\ lookup.called
    /\ lookup' = NoLookup
    /\ UNCHANGED <<enabled, types, mediaservers, add_play_link, webhook_msg_keys,
                   now, active, history, last, threads>>

LookupNext ==
    \/ \E media_path \in LookupPaths : Lookup(media_path)
    \/ LookupDone

LookupSpec == Init /\ [][LookupNext]_vars

-----------------------------------------------------------------------------
(* Vocabulary of the properties *)

\* the dedup key of the event whose handling has just ended
LastKey == ExpiringKey(last.event)

\* isActive(key) of the specification: present and the expiry not elapsed at t
IsActive(keys, key, t) == key \in DOMAIN keys /\ keys[key] > t

\* the handling that has just ended was of an event of this kind that passed
\* the filter
AcceptedKind(kind) == last.valid /\ last.accepted /\ last.event.event = kind

-----------------------------------------------------------------------------
(* Properties *)

\* C1 (as claimed): a filter-accepted playback.stop whose key is not active
\* when it is handled (absent, or present with an elapsed expiry) is notified
\* and leaves the key in the dedup set with expiry = handling time + 600.
\* Stated for the handlings that no exception ended.
C1_InactiveStopNotifies ==
    (AcceptedKind("playback.stop") /\ last.outcome = "returned"
        /\ ~IsActive(last.pre, LastKey, last.at))
    => /\ last.notified
       /\ LastKey \in DOMAIN webhook_msg_keys
       /\ webhook_msg_keys[LastKey] = last.at + 600

\* C2 (as claimed): a filter-accepted playback.stop of a key whose previous
\* filter-accepted playback.stop was handled less than 600 seconds earlier,
\* with no accepted playback.start of the key in between, delivers no
\* notification, issues no rescan call, and sets the expiry of the key to the
\* handling time + 600.
C2_SecondStopSuppressed ==
    (AcceptedKind("playback.stop") /\ LastKey = WatchedKey
        /\ last.prehist.stop_at # <<>>
        /\ last.at - last.prehist.stop_at[1] < 600)
    => /\ ~last.notified
       /\ "notify" \notin last.calls
       /\ "rescan" \notin last.calls
       /\ LastKey \in DOMAIN webhook_msg_keys
       /\ webhook_msg_keys[LastKey] = last.at + 600

\* C3 (as claimed): after send returns from handling any playback.start event
\* while the plugin is enabled, the key of the event is absent from the dedup set.
C3_StartRemovesWhileEnabled ==
    (last.valid /\ enabled /\ last.event.event = "playback.start"
        /\ last.outcome = "returned")
    => LastKey \notin DOMAIN webhook_msg_keys

\* C3 (amended): after send returns from handling a playback.start event that
\* passed the filter, the key of the event is absent from the dedup set,
\* whether or not it was in the set before.
C3_AcceptedStartRemoves ==
    (AcceptedKind("playback.start") /\ last.outcome = "returned")
    => LastKey \notin DOMAIN webhook_msg_keys

\* C3 witness: an accepted playback.start was handled while its key was in the
\* dedup set, and send returned.
C3_Witness ==
    /\ AcceptedKind("playback.start") /\ last.outcome = "returned"
    /\ LastKey \in DOMAIN last.pre

\* C4: when a playback.stop notification of a key is delivered after an
\* earlier one of the same key, then an accepted playback.start of the key was
\* handled in between, or at least 600 seconds passed since the last
\* playback.stop event of the key.
C4_OneStopPerWindow ==
    (AcceptedKind("playback.stop") /\ LastKey = WatchedKey /\ last.notified
        /\ last.prehist.armed)
    => /\ last.prehist.stop_at # <<>>
       /\ last.at - last.prehist.stop_at[1] >= 600

\* C4 witness: a second playback.stop notification of the key is delivered,
\* after a playback.start re-armed the key.
C4_Witness ==
    /\ AcceptedKind("playback.stop") /\ LastKey = WatchedKey /\ last.notified
    /\ last.prehist.delivered /\ ~last.prehist.armed

\* C5 (as claimed): after a filter-accepted playback.stop was handled, the
\* dedup set holds no entry whose expiry has elapsed, and every other entry
\* whose expiry was still in the future is kept as it was.
C5_StopPurgesExpired ==
    (AcceptedKind("playback.stop") /\ last.outcome = "returned")
    => /\ \A k \in DOMAIN webhook_msg_keys : webhook_msg_keys[k] > last.at
       /\ \A k \in DOMAIN last.pre \ {LastKey} :
            last.pre[k] > last.at
            => k \in DOMAIN webhook_msg_keys /\ webhook_msg_keys[k] = last.pre[k]

\* C6 (as claimed): send returns normally for every event, whichever
\* collaborator fails.
C6_SendNeverRaises ==
    last.valid => last.outcome = "returned"

\* C7: for every filter-accepted library.new event, whatever the rescan step
\* did (a call that succeeded, exited non-zero, timed out, found no curl or
\* failed otherwise, or no call at all), send goes on to compose the
\* notification, and delivers it unless the delivery itself fails.
C7_RescanNeverBlocksNotification ==
    AcceptedKind("library.new")
    => /\ last.composed
       /\ last.ended # "rescan"
       /\ last.rescan.result \in CurlOutcomes \cup {"skipped"}
       /\ (last.notified \/ last.ended = "notify")

\* C7 witness: the rescan call timed out and the notification was delivered.
C7_Witness ==
    /\ AcceptedKind("library.new") /\ last.rescan.called
    /\ last.rescan.result = "timeout" /\ last.notified

\* C8: an event whose kind is not in the kind -> label table is rejected, and
\* handling it calls no collaborator.
C8_UnrecognizedKindNoCalls ==
    (last.valid /\ last.event.has_data
        /\ last.event.event \notin
            {"library.new", "system.webhooktest", "playback.start", "playback.stop",
             "user.authenticated", "user.authenticationfailed", "media.play",
             "media.stop", "PlaybackStart", "PlaybackStop", "item.rate"})
    => /\ ~last.accepted
       /\ last.outcome = "returned"
       /\ last.calls = {}
       /\ ~last.rescan.called
       /\ webhook_msg_keys = last.pre

\* C8 witness: an event of an unrecognized kind was handled by the enabled
\* plugin with servers configured and connected.
C8_Witness ==
    /\ last.valid /\ last.event.event = "bogus.kind"
    /\ enabled /\ mediaservers # {} /\ active # {}

\* C9: a rescan call is issued only while handling a library.new event that
\* passed the filter; its endpoint segment is movies for item type MOV and
\* tvshows for TV or SHOW; for any other item type no call is issued.
C9_RescanOnlyForLibraryNew ==
    last.valid
    => /\ last.rescan.called <=> "rescan" \in last.calls
       /\ last.rescan.called
            => /\ last.accepted /\ last.event.event = "library.new"
               /\ \/ last.event.item_type = "MOV" /\ last.rescan.segment = "movies"
                  \/ last.event.item_type \in {"TV", "SHOW"}
                     /\ last.rescan.segment = "tvshows"

\* C9 witness: a rescan call to tvshows was issued for a SHOW item.
C9_Witness ==
    /\ last.valid /\ last.rescan.called
    /\ last.event.item_type = "SHOW" /\ last.rescan.segment = "tvshows"

\* the configured servers the directory reports as connected while the filter
\* ran (none when the directory query itself failed)
Reachable ==
    IF last.outcome = "raised" /\ ~last.accepted THEN {}
    ELSE {s \in Servers : s \in mediaservers /\ s \in active}

\* the kind is a member of one of the selected groups
KindSelected ==
    \E t \in types : \E i \in 1..Len(t) : t[i] = last.event.event

\* the conditions of the filter that do not depend on the server or channel
\* the event names
C10_Common ==
    /\ enabled
    /\ last.event.has_data
    /\ last.event.event \in DOMAIN webhook_actions
    /\ KindSelected
    /\ Reachable # {}
    /\ last.event.server_name # None => last.event.server_name \in Reachable

\* C10 (as claimed): an event passes the filter exactly when the plugin is
\* enabled, the kind is recognized and selected, a configured server is
\* reachable, a named server is configured and reachable, and, when the event
\* names a channel instead of a server, a configured reachable server of that
\* type exists; a rejection raises nothing.
C10_FilterAsClaimed ==
    last.valid
    => /\ last.accepted
          <=> /\ C10_Common
              /\ (last.event.server_name = None /\ last.event.channel # None)
                 => \E s \in Reachable : ServerType[s] = last.event.channel
       /\ ~last.accepted /\ last.ended # "directory" => last.outcome = "returned"

\* C10 (amended): as claimed, except that the channel condition applies to
\* every event that names a channel, whether or not it also names a server.
C10_FilterExactly ==
    last.valid
    => /\ last.accepted
          <=> /\ C10_Common
              /\ last.event.channel # None
                 => \E s \in Reachable : ServerType[s] = last.event.channel
       /\ ~last.accepted /\ last.ended # "directory" => last.outcome = "returned"

\* C10 witness: an event that names a reachable configured server and a
\* channel no reachable configured server has was rejected.
C10_Witness ==
    /\ last.valid /\ ~last.accepted /\ last.ended = "channel"
    /\ last.event.server_name \in Reachable
    /\ last.event.channel # None

\* the calls of send that have returned
Returned == {t \in Threads : threads[t].pc = "done"}

\* C11 (as claimed): with events dispatched concurrently the accesses to the
\* dedup set are serialized: two playback.stop events of the same key, both
\* begun while the key was not in the set, yield at most one delivered
\* notification; and once all calls have returned, no update is lost: the key
\* of a handled playback.stop is in the set unless another call handled a
\* playback.start of that key, and the key of a handled playback.start is not
\* in the set unless another call handled a playback.stop of that key.
C11_DedupAccessSerialized ==
    /\ \A t, u \in Returned :
        (/\ t # u
         /\ threads[t].event.event = "playback.stop"
         /\ threads[u].event = threads[t].event
         /\ threads[t].absent /\ threads[u].absent)
        => ~(threads[t].notified /\ threads[u].notified)
    /\ Returned = Threads
       => \A t \in Threads :
            LET key == ExpiringKey(threads[t].event)
                others == {threads[u].event : u \in Threads \ {t}}
                touched(kind) ==
                    \E o \in others : o.event = kind /\ ExpiringKey(o) = key
            IN  /\ (threads[t].event.event = "playback.stop"
                        /\ ~touched("playback.start"))
                   => key \in DOMAIN webhook_msg_keys
                /\ (threads[t].event.event = "playback.start"
                        /\ ~touched("playback.stop"))
                   => key \notin DOMAIN webhook_msg_keys

\* the entries of the table that have a pattern contained in the looked-up path
LookupHits ==
    {i \in 1..Len(path_mapping) :
        \E j \in 1..Len(path_mapping[i][1]) : Contains(path_mapping[i][1][j], lookup.path)}

\* C12: _get_variable_one_from_path returns the category id of the first entry
\* in declaration order of the table that has a string contained anywhere in
\* the path, and none when no listed string is contained or the path is empty;
\* /media/Movie/Episode/Donghua/foo.mkv resolves to 0 and
\* /media/Show/Zongyi/ZongyiUS/bar.strm to 11.
C12_FirstContainedEntry ==
    lookup.called =>
        /\ (lookup.result = <<>>) <=> (lookup.path = <<>> \/ LookupHits = {})
        /\ lookup.result # <<>> =>
             \E i \in LookupHits :
                /\ \A k \in 1..(i - 1) : k \notin LookupHits
                /\ lookup.result = <<path_mapping[i][2]>>
        /\ lookup.path = PathDonghua => lookup.result = <<0>>
        /\ lookup.path = PathZongyi => lookup.result = <<11>>

\* a path that holds the pattern of a later entry before the pattern of an
\* earlier one, resolved to the earlier entry's id
C12_Witness ==
    /\ lookup.called
    /\ lookup.path = path_mapping[12][1][1] \o path_mapping[4][1][2] \o Slash(<<"foo">>)
    /\ lookup.result = <<3>>

\* the kind that stands for its group in the types options: the first one of
\* "playback.start|media.play|PlaybackStart" and "playback.stop|media.stop|PlaybackStop"
GroupKind(kind) ==
    IF kind \in {"media.stop", "PlaybackStop"} THEN "playback.stop"
    ELSE IF kind \in {"media.play", "PlaybackStart"} THEN "playback.start"
    ELSE kind

\* C13 (as claimed): the kinds of one group are equivalent for deduplication:
\* in every state where send can be called, an accepted playback event of any
\* start or stop kind is delivered or suppressed exactly as the same event with
\* the kind 'playback.start' / 'playback.stop' of its group would be, and
\* leaves the same dedup set.
C13_GroupKindsEquivalent ==
    ~last.valid =>
        \A e \in PlaybackEvents :
            LET c == [e EXCEPT !.event = GroupKind(e.event)]
                r == SendResult(e, "none", "ok")
                rc == SendResult(c, "none", "ok")
            IN  r.accepted =>
                    /\ r.notified = rc.notified
                    /\ r.keys = rc.keys

\* C14: the dedup set is changed only by handling an accepted 'playback.stop',
\* which inserts or overwrites that event's own key, or an accepted
\* 'playback.start', which removes that event's own key: an event rejected by
\* the filter and an accepted event of any other kind leave the set unchanged,
\* and no event changes the entry of a key other than its own.
C14_DedupFrame ==
    last.valid =>
        /\ \A k \in (DOMAIN last.pre \cup DOMAIN webhook_msg_keys) \ {LastKey} :
              /\ k \in DOMAIN last.pre
              /\ k \in DOMAIN webhook_msg_keys
              /\ webhook_msg_keys[k] = last.pre[k]
        /\ (~last.accepted \/ last.event.event \notin {"playback.stop", "playback.start"})
              => webhook_msg_keys = last.pre
        /\ webhook_msg_keys # last.pre =>
              \/ /\ AcceptedKind("playback.stop")
                 /\ LastKey \in DOMAIN webhook_msg_keys
                 /\ webhook_msg_keys[LastKey] = last.at + DURATION
              \/ /\ AcceptedKind("playback.start")
                 /\ LastKey \in DOMAIN last.pre
                 /\ LastKey \notin DOMAIN webhook_msg_keys

\* an accepted playback.stop stores its own key while the elapsed entry of
\* another key stays as it was
C14_Witness ==
    /\ AcceptedKind("playback.stop")
    /\ LastKey \notin DOMAIN last.pre
    /\ LastKey \in DOMAIN webhook_msg_keys
    /\ \E k \in DOMAIN last.pre :
          /\ k # LastKey
          /\ last.pre[k] <= last.at
          /\ k \in DOMAIN webhook_msg_keys
          /\ webhook_msg_keys[k] = last.pre[k]

====
